---------------------------- MODULE Spec2Model ----------------------------
(***************************************************************************)
(* A model of the CHIP-8 virtual machine of rylenko/chip-8: the Ram, the   *)
(* Timer, the Keyboard latch, the Screen framebuffer and the Cpu's         *)
(* fetch-decode-execute step.  Time is the integer number of milliseconds  *)
(* read from the monotonic clock.  A Rust panic ends the process: it is    *)
(* recorded in the variable panic and nothing runs afterwards.             *)
(***************************************************************************)
EXTENDS Integers, Sequences, FiniteSets, TLC

VARIABLES
    v,                      \* Cpu.v: the 16 general purpose u8 registers
    i,                      \* Cpu.i: the u16 address register
    pc,                     \* Cpu.pc: the u16 program counter
    return_stack,           \* Cpu.return_stack: Vec<u16>, top at the end
    last_instruction_time,  \* Cpu.last_instruction_time
    memory,                 \* Ram.memory: [u8; 4096]
    delay,                  \* Timer.delay
    delay_set_time,         \* Timer.delay_set_time
    buffer,                 \* Screen.buffer: [u8; SCREEN_SIZE]
    last_display_time,      \* Screen.last_display_time
    pressed_key_code,       \* Keyboard.pressed_key_code: Option<u8>
    pressed_key_time,       \* Keyboard.pressed_key_time
    now,                    \* the last reading of the monotonic clock, in ms
    debug_build,            \* the build profile: TRUE for a build with
                            \* debug assertions and overflow checks
    panic,                  \* "" while the process runs, else why it died
    stage,                  \* main's position: "new" after Emulator::new,
                            \* "loaded" once the ROM is in memory
    last,                   \* history: the last operation and the state before it
    hist                    \* history: counters and call sites for the claims

vars == <<v, i, pc, return_stack, last_instruction_time, memory, delay,
          delay_set_time, buffer, last_display_time, pressed_key_code,
          pressed_key_time, now, debug_build, panic, stage, last, hist>>

---------------------------------------------------------------------------
(* Program constants *)

RAM_SIZE == 4096
RAM_ROM_START_ADDRESS == 512
SCREEN_WIDTH == 64
SCREEN_HEIGHT == 32
SCREEN_SIZE == SCREEN_WIDTH * SCREEN_HEIGHT
TIMER_TICK_MS == 16
INSTRUCTION_INTERVAL_MS == 2
DISPLAY_INTERVAL_MS == 10
KEY_HOLD_MS == 200

\* consts::RAM_DIGIT_SPRITES: the sixteen 5-byte glyphs 0..F
RAM_DIGIT_SPRITES ==
    << <<240, 144, 144, 144, 240>>, <<32, 96, 32, 32, 112>>,
       <<240, 16, 240, 128, 240>>,  <<240, 16, 240, 16, 240>>,
       <<144, 144, 240, 16, 16>>,   <<240, 128, 240, 16, 240>>,
       <<240, 128, 240, 144, 240>>, <<240, 16, 32, 64, 64>>,
       <<240, 144, 240, 144, 240>>, <<240, 144, 240, 16, 240>>,
       <<240, 144, 240, 144, 144>>, <<224, 144, 224, 144, 224>>,
       <<240, 128, 128, 128, 240>>, <<224, 144, 144, 144, 224>>,
       <<240, 128, 240, 128, 240>>, <<240, 128, 240, 128, 128>> >>

---------------------------------------------------------------------------
(* Fixed-width integer arithmetic *)

U8 == 0..255

Pow2(k) == 2^k

BitOf(a, k) == (a \div Pow2(k)) % 2

\* a bitwise operator of two bytes from its truth table tt[bit of a][bit of b]
RECURSIVE Bitwise(_, _, _, _)
Bitwise(a, b, tt, k) ==
    IF k = 8 THEN 0
    ELSE Pow2(k) * tt[BitOf(a, k) + 1][BitOf(b, k) + 1] + Bitwise(a, b, tt, k + 1)

BitOr(a, b) == Bitwise(a, b, << <<0, 1>>, <<1, 1>> >>, 0)

BitAnd(a, b) == Bitwise(a, b, << <<0, 0>>, <<0, 1>> >>, 0)

BitXor(a, b) == Bitwise(a, b, << <<0, 1>>, <<1, 0>> >>, 0)

\* an addition that stops at 255
saturating_add(a, b) == IF a + b > 255 THEN 255 ELSE a + b

\* u8::wrapping_add
wrapping_add(a, b) == (a + b) % 256

\* u8::overflowing_add: the wrapped sum and whether it overflowed
overflowing_add(a, b) == [value |-> (a + b) % 256, is_overflow |-> a + b > 255]

\* u8::overflowing_sub: the wrapped difference and whether it borrowed
overflowing_sub(a, b) == [value |-> (a - b + 256) % 256, is_overflow |-> a < b]

\* u8 >> 1
Shr1(a) == a \div 2

\* u8 << 1: the bit shifted out of the byte is dropped
Shl1(a) == (a * 2) % 256

---------------------------------------------------------------------------
(* Option<u8> *)

None == <<>>

Some(c) == <<c>>

---------------------------------------------------------------------------
(* Ram *)

\* Ram::new
RamNew == [a \in 0..(RAM_SIZE - 1) |-> 0]

\* the index check of self.memory[address as usize]
InBounds(address) == address >= 0 /\ address < RAM_SIZE

\* Ram::read
read(mem, address) == mem[address]

\* Ram::write
write(mem, address, value) == [mem EXCEPT ![address] = value]

\* Ram::load_digit_sprites: the debug assertion that the first 80 cells are
\* all zero
load_digit_sprites_fails(mem, debug) ==
    debug /\ \E a \in 0..79 : mem[a] # 0

\* Ram::load_digit_sprites: glyph d's row r goes to address 5 * d + r;
\* nothing is written when the assertion fails
load_digit_sprites(mem, debug) ==
    IF load_digit_sprites_fails(mem, debug) THEN mem
    ELSE [a \in 0..(RAM_SIZE - 1) |->
            IF a < 80 THEN RAM_DIGIT_SPRITES[(a \div 5) + 1][(a % 5) + 1]
            ELSE mem[a]]

\* Ram::load_rom: whether a write of the loop is past the end of memory
load_rom_fails(data) ==
    \E k \in 1..Len(data) : ~InBounds(RAM_ROM_START_ADDRESS + k - 1)

\* Ram::load_rom: data[k] (1-based) goes to RAM_ROM_START_ADDRESS + k - 1;
\* the writes made before one fails are kept
load_rom(mem, data) ==
    [a \in 0..(RAM_SIZE - 1) |->
        IF a >= RAM_ROM_START_ADDRESS /\ a < RAM_ROM_START_ADDRESS + Len(data)
        THEN data[a - RAM_ROM_START_ADDRESS + 1] ELSE mem[a]]

---------------------------------------------------------------------------
(* Timer *)

\* the value standing for the unreachable!() arm of Timer::get_delay
UNREACHABLE == 0 - 1

\* a subtraction that wraps instead of stopping at zero
get_delay_wrapping(d, set_time, t) ==
    LET ticks == (t - set_time) \div TIMER_TICK_MS
    IN  IF ticks <= 255 THEN (d - ticks) % 256 ELSE UNREACHABLE

\* Timer::get_delay at clock reading t
get_delay(d, set_time, t) ==
    LET ticks == (t - set_time) \div TIMER_TICK_MS
    IN  IF ticks >= d THEN 0
        ELSE IF ticks <= 255 THEN d - ticks
        ELSE UNREACHABLE

---------------------------------------------------------------------------
(* Keyboard *)

\* a check for which an empty latch counts as pressed
is_key_pressed_or_empty(code, c) == code = None \/ code = Some(c)

\* Keyboard::is_key_pressed
is_key_pressed(code, c) == code = Some(c)

\* a check that does not wait for the hold to elapse
can_reset_any_time(code, key_time, t) == code # None

\* Keyboard::can_reset_pressed_key at clock reading t
can_reset_pressed_key(code, key_time, t) ==
    code # None /\ t - key_time >= KEY_HOLD_MS

---------------------------------------------------------------------------
(* Screen *)

\* Screen::new
ScreenNew == [p \in 0..(SCREEN_SIZE - 1) |-> 0]

\* a clear that stops one cell short
clear_but_last(buf) ==
    [p \in 0..(SCREEN_SIZE - 1) |-> IF p = SCREEN_SIZE - 1 THEN buf[p] ELSE 0]

\* Screen::clear
clear(buf) == [p \in 0..(SCREEN_SIZE - 1) |-> 0]

\* Screen::can_display at clock reading t
can_display(display_time, t) == t - display_time > DISPLAY_INTERVAL_MS

\* Screen::display: whether the match on a pixel reaches unreachable!()
display_unreachable(buf) == \E p \in DOMAIN buf : buf[p] # 0 /\ buf[p] # 1

\* a pass that adds the bit to the pixel
DrawBitAdd(buf, byte, x, y) ==
    LET xw == x % SCREEN_WIDTH
        buffer_index == y * SCREEN_WIDTH + xw
        previous_bit == buf[buffer_index]
        bit == BitAnd(byte, 128) \div 128
        current_bit == previous_bit + bit
    IN  [buffer |-> [buf EXCEPT ![buffer_index] = current_bit],
         erased |-> previous_bit = 1 /\ current_bit = 0]

\* a pass that ORs the bit onto the pixel
DrawBitOr(buf, byte, x, y) ==
    LET xw == x % SCREEN_WIDTH
        buffer_index == y * SCREEN_WIDTH + xw
        previous_bit == buf[buffer_index]
        bit == BitAnd(byte, 128) \div 128
        current_bit == BitOr(previous_bit, bit)
    IN  [buffer |-> [buf EXCEPT ![buffer_index] = current_bit],
         erased |-> previous_bit = 1 /\ current_bit = 0]

\* one pass of the loop of Screen::draw_byte: the pixel at (x mod width, y)
\* is XORed with the top bit of byte
DrawBit(buf, byte, x, y) ==
    LET xw == x % SCREEN_WIDTH
        buffer_index == y * SCREEN_WIDTH + xw
        previous_bit == buf[buffer_index]
        bit == BitAnd(byte, 128) \div 128
        current_bit == BitXor(previous_bit, bit)
    IN  [buffer |-> [buf EXCEPT ![buffer_index] = current_bit],
         erased |-> previous_bit = 1 /\ current_bit = 0]

RECURSIVE DrawBits(_, _, _, _, _, _)
DrawBits(buf, byte, x, y, is_erased, k) ==
    IF k = 8 THEN [buffer |-> buf, is_erased |-> is_erased]
    ELSE LET d == DrawBit(buf, byte, x, y)
         IN  DrawBits(d.buffer, Shl1(byte), (x % SCREEN_WIDTH) + 1, y,
                      is_erased \/ d.erased, k + 1)

\* Screen::draw_byte: the new buffer and whether a set pixel was erased
draw_byte(buf, byte, x, y) ==
    DrawBits(buf, byte, x, y % SCREEN_HEIGHT, FALSE, 0)

---------------------------------------------------------------------------
(* Cpu *)

\* a gate that is always open
can_run_any_time(instruction_time, t) == TRUE

\* a panic of the process: what was written before it stays written
Panic(c, why) == [c EXCEPT !.panic = why]

\* Cpu::can_run_instruction at clock reading t
can_run_instruction(instruction_time, t) ==
    t - instruction_time > INSTRUCTION_INTERVAL_MS

\* the screen row (y + sprite_i) as usize of Cpu::draw_sprite: a u8 addition,
\* wrapped by a build without overflow checks
SpriteRow(y, sprite_i) == (y + sprite_i) % 256

\* a loop that keeps only the last row's collision
RECURSIVE DrawRowsLastRowOnly(_, _, _, _, _, _, _)
DrawRowsLastRowOnly(c, x, y, length, sprite_i, should_set_vf, checks) ==
    IF sprite_i >= length
    THEN [c EXCEPT !.v[15] = IF should_set_vf THEN 1 ELSE 0]
    ELSE IF ~InBounds(c.i + sprite_i) THEN Panic(c, "index_out_of_bounds")
    ELSE IF checks /\ y + sprite_i > 255 THEN Panic(c, "add_overflow")
    ELSE LET byte == read(c.memory, c.i + sprite_i)
             d == draw_byte(c.buffer, byte, x, SpriteRow(y, sprite_i))
         IN  DrawRowsLastRowOnly([c EXCEPT !.buffer = d.buffer], x, y, length,
                                 sprite_i + 1, d.is_erased, checks)

\* the loop of Cpu::draw_sprite from row sprite_i on
RECURSIVE DrawRows(_, _, _, _, _, _, _)
DrawRows(c, x, y, length, sprite_i, should_set_vf, checks) ==
    IF sprite_i >= length
    THEN [c EXCEPT !.v[15] = IF should_set_vf THEN 1 ELSE 0]
    ELSE IF ~InBounds(c.i + sprite_i) THEN Panic(c, "index_out_of_bounds")
    ELSE IF checks /\ y + sprite_i > 255 THEN Panic(c, "add_overflow")
    ELSE LET byte == read(c.memory, c.i + sprite_i)
             d == draw_byte(c.buffer, byte, x, SpriteRow(y, sprite_i))
         IN  DrawRows([c EXCEPT !.buffer = d.buffer], x, y, length,
                      sprite_i + 1, should_set_vf \/ d.is_erased, checks)

\* Cpu::draw_sprite
draw_sprite(c, x, y, length, checks) == DrawRows(c, x, y, length, 0, FALSE, checks)

\* a loop that stops before register x
RECURSIVE StoreRegsExclusive(_, _, _)
StoreRegsExclusive(c, x, k) ==
    IF k >= x THEN c
    ELSE IF ~InBounds(c.i + k) THEN Panic(c, "index_out_of_bounds")
    ELSE StoreRegsExclusive([c EXCEPT !.memory = write(@, c.i + k, c.v[k])], x, k + 1)

\* the loop of Fx55 from register k on
RECURSIVE StoreRegs(_, _, _)
StoreRegs(c, x, k) ==
    IF k > x THEN c
    ELSE IF ~InBounds(c.i + k) THEN Panic(c, "index_out_of_bounds")
    ELSE StoreRegs([c EXCEPT !.memory = write(@, c.i + k, c.v[k])], x, k + 1)

\* the loop of Fx65 from register k on
RECURSIVE LoadRegs(_, _, _)
LoadRegs(c, x, k) ==
    IF k > x THEN c
    ELSE IF ~InBounds(c.i + k) THEN Panic(c, "index_out_of_bounds")
    ELSE LoadRegs([c EXCEPT !.v[k] = read(c.memory, c.i + k)], x, k + 1)

\* a return that steps on when the call stack is empty
OpReturnIgnoresEmpty(c) ==
    IF c.return_stack = <<>> THEN [c EXCEPT !.pc = @ + 2]
    ELSE [c EXCEPT !.pc = c.return_stack[Len(c.return_stack)],
                   !.return_stack = SubSeq(@, 1, Len(@) - 1)]

\* 00EE: pop the call stack into pc
OpReturn(c) ==
    IF c.return_stack = <<>> THEN Panic(c, "unwrap_none")
    ELSE [c EXCEPT !.pc = c.return_stack[Len(c.return_stack)],
                   !.return_stack = SubSeq(@, 1, Len(@) - 1)]

\* a call that pushes the address of the call itself
OpCallPushesPc(c, nnn) ==
    [c EXCEPT !.return_stack = Append(@, c.pc), !.pc = nnn]

\* 2nnn: push pc + 2, jump to nnn
OpCall(c, nnn) ==
    [c EXCEPT !.return_stack = Append(@, c.pc + 2), !.pc = nnn]

\* an add that sets the flag on overflow and never clears it
OpAddKeepsFlag(c, x, y) ==
    LET r == overflowing_add(c.v[x], c.v[y])
        c1 == [c EXCEPT !.v[x] = r.value]
    IN  [c1 EXCEPT !.v[15] = IF r.is_overflow THEN 1 ELSE @, !.pc = @ + 2]

\* 8xy4
OpAdd(c, x, y) ==
    LET r == overflowing_add(c.v[x], c.v[y])
        c1 == [c EXCEPT !.v[x] = r.value]
    IN  [c1 EXCEPT !.v[15] = IF r.is_overflow THEN 1 ELSE 0, !.pc = @ + 2]

\* 8xy5
OpSub(c, x, y) ==
    LET r == overflowing_sub(c.v[x], c.v[y])
        c1 == [c EXCEPT !.v[x] = r.value]
    IN  [c1 EXCEPT !.v[15] = IF r.is_overflow THEN 0 ELSE 1, !.pc = @ + 2]

\* a reversed subtraction that subtracts in the order of 8xy5
OpSubnAsSub(c, x, y) ==
    LET r == overflowing_sub(c.v[x], c.v[y])
        c1 == [c EXCEPT !.v[x] = r.value]
    IN  [c1 EXCEPT !.v[15] = IF r.is_overflow THEN 0 ELSE 1, !.pc = @ + 2]

\* 8xy7
OpSubn(c, x, y) ==
    LET r == overflowing_sub(c.v[y], c.v[x])
        c1 == [c EXCEPT !.v[x] = r.value]
    IN  [c1 EXCEPT !.v[15] = IF r.is_overflow THEN 0 ELSE 1, !.pc = @ + 2]

\* 8xy6
OpShr(c, x) ==
    LET c1 == [c EXCEPT !.v[15] = BitAnd(c.v[x], 1)]
    IN  [c1 EXCEPT !.v[x] = Shr1(@), !.pc = @ + 2]

\* 8xyE
OpShl(c, x) ==
    LET c1 == [c EXCEPT !.v[15] = BitAnd(c.v[x], 128) \div 128]
    IN  [c1 EXCEPT !.v[x] = Shl1(@), !.pc = @ + 2]

\* Dxyn
OpDraw(c, x, y, n, checks) ==
    LET c1 == draw_sprite(c, c.v[x], c.v[y], n, checks)
    IN  IF c1.panic # "" THEN c1 ELSE [c1 EXCEPT !.pc = @ + 2]

\* Fx07
OpGetDelay(c, x, t) ==
    LET d == get_delay(c.delay, c.delay_set_time, t)
    IN  IF d = UNREACHABLE THEN Panic(c, "unreachable")
        ELSE [c EXCEPT !.v[x] = d, !.pc = @ + 2]

\* a wait that moves on with a key but does not store it
OpWaitKeyDropsKey(c, x, code) ==
    IF code = None THEN c ELSE [c EXCEPT !.pc = @ + 2]

\* a wait that moves on without a key
OpWaitKeyMovesOn(c, x, code) ==
    IF code = None THEN [c EXCEPT !.pc = @ + 2]
    ELSE [c EXCEPT !.v[x] = code[1], !.pc = @ + 2]

\* Fx0A
OpWaitKey(c, x, code) ==
    IF code = None THEN c ELSE [c EXCEPT !.v[x] = code[1], !.pc = @ + 2]

\* Fx15: Timer::set_delay at clock reading t
OpSetDelay(c, x, t) ==
    [c EXCEPT !.delay = c.v[x], !.delay_set_time = t, !.pc = @ + 2]

\* Fx1E: a u16 addition, wrapped by a build without overflow checks
OpAddI(c, x, checks) ==
    IF checks /\ c.i + c.v[x] > 65535 THEN Panic(c, "add_overflow")
    ELSE [c EXCEPT !.i = (c.i + c.v[x]) % 65536, !.pc = @ + 2]

\* Fx33: three writes in turn; the writes made before one fails are kept
OpBcd(c, x) ==
    LET vx == c.v[x]
        c1 == IF ~InBounds(c.i) THEN Panic(c, "index_out_of_bounds")
              ELSE [c EXCEPT !.memory = write(@, c.i, vx \div 100)]
        c2 == IF c1.panic # "" THEN c1
              ELSE IF ~InBounds(c.i + 1) THEN Panic(c1, "index_out_of_bounds")
              ELSE [c1 EXCEPT !.memory = write(@, c.i + 1, (vx % 100) \div 10)]
        c3 == IF c2.panic # "" THEN c2
              ELSE IF ~InBounds(c.i + 2) THEN Panic(c2, "index_out_of_bounds")
              ELSE [c2 EXCEPT !.memory = write(@, c.i + 2, vx % 10)]
    IN  IF c3.panic # "" THEN c3 ELSE [c3 EXCEPT !.pc = @ + 2]

\* Fx55: the registers written before a write fails stay written
OpStore(c, x) ==
    LET c1 == StoreRegs(c, x, 0)
    IN  IF c1.panic # "" THEN c1 ELSE [c1 EXCEPT !.pc = @ + 2]

\* Fx65: the registers loaded before a read fails stay loaded
OpLoad(c, x) ==
    LET c1 == LoadRegs(c, x, 0)
    IN  IF c1.panic # "" THEN c1 ELSE [c1 EXCEPT !.pc = @ + 2]

\* pc += 4 when skip, else pc += 2
Skip(c, skip) == [c EXCEPT !.pc = IF skip THEN @ + 4 ELSE @ + 2]

\* the instruction word Cpu::run_instruction fetches at pc
Fetch(mem, at) == read(mem, at) * 256 + read(mem, at + 1)

\* the match of Cpu::run_instruction on the fetched instruction, executed at
\* clock reading t with latched key code, random byte rnd
Dispatch(c, instruction, code, t, rnd, checks) ==
    LET nnn == instruction % 4096
        nn == instruction % 256
        n == instruction % 16
        x == (instruction \div 256) % 16
        y == (instruction \div 16) % 16
        op == instruction \div 4096
    IN  CASE op = 0 /\ nn = 224 -> [c EXCEPT !.buffer = clear(@), !.pc = @ + 2]
          [] op = 0 /\ nn = 238 -> OpReturn(c)
          [] op = 1 -> [c EXCEPT !.pc = nnn]
          [] op = 2 -> OpCall(c, nnn)
          [] op = 3 -> Skip(c, c.v[x] = nn)
          [] op = 4 -> Skip(c, ~(c.v[x] = nn))
          [] op = 5 /\ n = 0 -> Skip(c, c.v[x] = c.v[y])
          [] op = 6 -> [c EXCEPT !.v[x] = nn, !.pc = @ + 2]
          [] op = 7 -> [c EXCEPT !.v[x] = wrapping_add(@, nn), !.pc = @ + 2]
          [] op = 8 /\ n = 0 -> [c EXCEPT !.v[x] = c.v[y], !.pc = @ + 2]
          [] op = 8 /\ n = 1 -> [c EXCEPT !.v[x] = BitOr(@, c.v[y]), !.pc = @ + 2]
          [] op = 8 /\ n = 2 -> [c EXCEPT !.v[x] = BitAnd(@, c.v[y]), !.pc = @ + 2]
          [] op = 8 /\ n = 3 -> [c EXCEPT !.v[x] = BitXor(@, c.v[y]), !.pc = @ + 2]
          [] op = 8 /\ n = 4 -> OpAdd(c, x, y)
          [] op = 8 /\ n = 5 -> OpSub(c, x, y)
          [] op = 8 /\ n = 6 -> OpShr(c, x)
          [] op = 8 /\ n = 7 -> OpSubn(c, x, y)
          [] op = 8 /\ n = 14 -> OpShl(c, x)
          [] op = 9 /\ n = 0 -> Skip(c, ~(c.v[x] = c.v[y]))
          [] op = 10 -> [c EXCEPT !.i = nnn, !.pc = @ + 2]
          [] op = 11 -> [c EXCEPT !.pc = nnn + c.v[0]]
          [] op = 12 -> [c EXCEPT !.v[x] = BitAnd(rnd, nn), !.pc = @ + 2]
          [] op = 13 -> OpDraw(c, x, y, n, checks)
          [] op = 14 /\ nn = 158 -> Skip(c, is_key_pressed(code, c.v[x]))
          [] op = 14 /\ nn = 161 -> Skip(c, ~is_key_pressed(code, c.v[x]))
          [] op = 15 /\ nn = 7 -> OpGetDelay(c, x, t)
          [] op = 15 /\ nn = 10 -> OpWaitKey(c, x, code)
          [] op = 15 /\ nn = 21 -> OpSetDelay(c, x, t)
          [] op = 15 /\ nn = 24 -> [c EXCEPT !.pc = @ + 2]
          [] op = 15 /\ nn = 30 -> OpAddI(c, x, checks)
          [] op = 15 /\ nn = 41 -> [c EXCEPT !.i = c.v[x] * 5, !.pc = @ + 2]
          [] op = 15 /\ nn = 51 -> OpBcd(c, x)
          [] op = 15 /\ nn = 85 -> OpStore(c, x)
          [] op = 15 /\ nn = 101 -> OpLoad(c, x)
          [] OTHER -> Panic(c, "unreachable")

\* a body that steps over a word no arm matches
ExecuteSkipsUnknown(c, code, t, rnd, checks) ==
    IF ~InBounds(c.pc) \/ ~InBounds(c.pc + 1) THEN Panic(c, "index_out_of_bounds")
    ELSE LET r == Dispatch(c, Fetch(c.memory, c.pc), code, t, rnd, checks)
         IN  IF r.panic = "unreachable" THEN [c EXCEPT !.pc = @ + 2] ELSE r

\* the body of Cpu::run_instruction after the gate: fetch at pc, then the match
Execute(c, code, t, rnd, checks) ==
    IF ~InBounds(c.pc) \/ ~InBounds(c.pc + 1) THEN Panic(c, "index_out_of_bounds")
    ELSE Dispatch(c, Fetch(c.memory, c.pc), code, t, rnd, checks)

---------------------------------------------------------------------------
(* The emulator's state as one record, and the step as an action *)

Machine ==
    [v |-> v, i |-> i, pc |-> pc, return_stack |-> return_stack,
     memory |-> memory, buffer |-> buffer, delay |-> delay,
     delay_set_time |-> delay_set_time, panic |-> panic]

\* the registers of the engine, as the history keeps them
Registers(c) == [v |-> c.v, i |-> c.i, pc |-> c.pc, return_stack |-> c.return_stack]

\* the instruction word at pc, or -1 when the fetch is out of bounds
Fetched(c) ==
    IF InBounds(c.pc) /\ InBounds(c.pc + 1) THEN Fetch(c.memory, c.pc) ELSE 0 - 1

IsCall(instruction) == instruction \div 4096 = 2

IsReturn(instruction) == instruction \div 4096 = 0 /\ instruction % 256 = 238

IsStore(instruction) == instruction \div 4096 = 15 /\ instruction % 256 = 85

IsLoad(instruction) == instruction \div 4096 = 15 /\ instruction % 256 = 101

IsBcd(instruction) == instruction \div 4096 = 15 /\ instruction % 256 = 51

IsClear(instruction) == instruction \div 4096 = 0 /\ instruction % 256 = 224

\* history kept for the claims: the steps taken, the calls and returns that
\* completed, the addresses of the calls that have not returned yet, and the
\* registers at the last block store, forgotten at the next write of memory
Observe(h, c, r) ==
    LET instruction == Fetched(c)
        ok == r.panic = ""
    IN  [steps |-> h.steps + 1,
         calls |-> IF ok /\ IsCall(instruction) THEN h.calls + 1 ELSE h.calls,
         returns |-> IF ok /\ IsReturn(instruction) THEN h.returns + 1 ELSE h.returns,
         call_sites |->
            IF ok /\ IsCall(instruction) THEN Append(h.call_sites, c.pc)
            ELSE IF ok /\ IsReturn(instruction)
                 THEN SubSeq(h.call_sites, 1, Len(h.call_sites) - 1)
            ELSE h.call_sites,
         returned_from |->
            IF ok /\ IsReturn(instruction) /\ h.call_sites # <<>>
            THEN h.call_sites[Len(h.call_sites)] ELSE h.returned_from,
         draws |-> h.draws,
         gets |-> h.gets,
         stored |->
            IF ok /\ IsStore(instruction)
            THEN <<[v |-> c.v, i |-> c.i, x |-> (instruction \div 256) % 16]>>
            ELSE IF IsBcd(instruction) THEN <<>>
            ELSE h.stored,
         cleared_lit |->
            IF ok /\ IsClear(instruction)
            THEN \E p \in 0..(SCREEN_SIZE - 1) : c.buffer[p] = 1
            ELSE h.cleared_lit,
         iterations |-> h.iterations,
         presses |-> h.presses]

\* a step that reads the latch as it stood before the conditional clear
latch_before_clear(pressed, cleared) == pressed

\* the latch that run_instruction reads: the clear comes before the step
latch_at_step(pressed, cleared) == cleared

\* one iteration of the while loop of process_window; the clock is read at
\* press_key, at each gate, at the assertion behind each gate and at each
\* set-point, in that order
process_window(key, timing, rnd) ==
    LET t_press == now + timing.d
        t_reset_gate == t_press + timing.lag
        t_reset_assert == t_reset_gate + timing.lag
        t_run_gate == t_reset_assert + timing.lag
        t_run_assert == t_run_gate + timing.lag
        t_run_set == t_run_assert + timing.lag
        t_display_gate == t_run_set + timing.lag
        t_display_assert == t_display_gate + timing.lag
        t_display_set == t_display_assert + timing.lag
        key_is_valid == key.down /\ key.code # None
        code1 == IF key_is_valid THEN key.code ELSE pressed_key_code
        time1 == IF key_is_valid THEN t_press ELSE pressed_key_time
        resets == can_reset_pressed_key(code1, time1, t_reset_gate) /\ ~key_is_valid
        reset_fails == resets /\ ~can_reset_pressed_key(code1, time1, t_reset_assert)
        code2 == IF resets /\ ~reset_fails THEN None ELSE code1
        c == Machine
        runs == ~reset_fails /\ can_run_instruction(last_instruction_time, t_run_gate)
        run_fails == /\ runs
                     /\ debug_build
                     /\ ~can_run_instruction(last_instruction_time, t_run_assert)
        r == IF reset_fails THEN Panic(c, "assert_reset")
             ELSE IF ~runs THEN c
             ELSE IF run_fails THEN Panic(c, "debug_assert")
             ELSE Execute(c, latch_at_step(code1, code2), t_run_set, rnd,
                          debug_build)
        displays == r.panic = "" /\ can_display(last_display_time, t_display_gate)
        display_fails == displays /\ ~can_display(last_display_time, t_display_assert)
        h == IF runs /\ ~run_fails THEN Observe(hist, c, r) ELSE hist
    IN  /\ stage = "loaded"
        /\ panic = ""
        /\ now' = t_display_set
        /\ pressed_key_code' = code2
        /\ pressed_key_time' = time1
        /\ last_instruction_time' =
              IF runs /\ ~run_fails THEN t_run_set ELSE last_instruction_time
        /\ last_display_time' =
              IF displays /\ ~display_fails THEN t_display_set ELSE last_display_time
        /\ v' = r.v
        /\ i' = r.i
        /\ pc' = r.pc
        /\ return_stack' = r.return_stack
        /\ memory' = r.memory
        /\ buffer' = r.buffer
        /\ delay' = r.delay
        /\ delay_set_time' = r.delay_set_time
        /\ panic' = IF display_fails THEN "assert_display" ELSE r.panic
        /\ last' = [op |-> "process_window", instruction |-> Fetched(c),
                    pre |-> Registers(c),
                    ret |-> [key |-> key, resets |-> resets, runs |-> runs,
                             displays |-> displays,
                             latched |-> code1,
                             t_reset_gate |-> t_reset_gate,
                             t_run_gate |-> t_run_gate,
                             t_display_gate |-> t_display_gate,
                             instruction_time |-> last_instruction_time,
                             display_time |-> last_display_time]]
        /\ hist' = [h EXCEPT !.iterations = @ + 1,
                             !.presses = IF key_is_valid
                                         THEN <<[code |-> key.code, time |-> t_press]>>
                                         ELSE @]
        /\ UNCHANGED <<debug_build, stage>>

\* the last operation was an iteration of the loop
Iterated == last.op = "process_window"

\* what the window reports with no key down, and with the key of a code down
NoKey == [down |-> FALSE, code |-> None]

KeyDown(code) == [down |-> TRUE, code |-> Some(code)]

\* the random bytes that matter to the instruction at pc: all of them for
\* Cxnn, one for any other instruction
RandomBytes(c) == IF Fetched(c) \div 4096 = 12 THEN U8 ELSE {0}

\* an iteration of the loop with no key down whose instruction step is due,
\* d milliseconds after the last clock reading
GatedStep(d) ==
    /\ can_run_instruction(last_instruction_time, now + d)
    /\ \E rnd \in RandomBytes(Machine) :
          process_window(NoKey, [d |-> d, lag |-> 0], rnd)

\* an iteration of the loop at the last clock reading with the key of a code
\* down
KeyIteration(code) ==
    \E rnd \in RandomBytes(Machine) :
        process_window(KeyDown(code), [d |-> 0, lag |-> 0], rnd)

---------------------------------------------------------------------------
(* Programs *)

\* the two bytes of an instruction word, big-endian
WordBytes(w) == <<w \div 256, w % 256>>

RECURSIVE RomBytes(_)
RomBytes(words) ==
    IF words = <<>> THEN <<>>
    ELSE WordBytes(Head(words)) \o RomBytes(Tail(words))

\* instruction words, as Cpu::run_instruction decodes them
Cls == 224
Ret == 238
Jp(nnn) == 4096 + nnn
Call(nnn) == 8192 + nnn
Se(x, nn) == 12288 + 256 * x + nn
Sne(x, nn) == 16384 + 256 * x + nn
SeV(x, y) == 20480 + 256 * x + 16 * y
SneV(x, y) == 36864 + 256 * x + 16 * y
Skp(x) == 57344 + 256 * x + 158
Sknp(x) == 57344 + 256 * x + 161
Ld(x, nn) == 24576 + 256 * x + nn
AddImm(x, nn) == 28672 + 256 * x + nn
Alu(x, y, n) == 32768 + 256 * x + 16 * y + n
LdI(nnn) == 40960 + nnn
JpV0(nnn) == 45056 + nnn
Drw(x, y, n) == 53248 + 256 * x + 16 * y + n
AddI(x) == 61440 + 256 * x + 30
Bcd(x) == 61440 + 256 * x + 51
Store(x) == 61440 + 256 * x + 85
Load(x) == 61440 + 256 * x + 101

\* the address of the k-th instruction (0-based) of the loaded program
RomAddress(k) == RAM_ROM_START_ADDRESS + 2 * k

\* Emulator::new in build dbg: every component is constructed at the same
\* clock reading
New(dbg) ==
    /\ v = [r \in 0..15 |-> 0]
    /\ i = 0
    /\ pc = RAM_ROM_START_ADDRESS
    /\ return_stack = <<>>
    /\ last_instruction_time = 0
    /\ memory = load_digit_sprites(RamNew, dbg)
    /\ delay = 0
    /\ delay_set_time = 0
    /\ buffer = ScreenNew
    /\ last_display_time = 0
    /\ pressed_key_code = None
    /\ pressed_key_time = 0
    /\ now = 0
    /\ debug_build = dbg
    /\ panic = (IF load_digit_sprites_fails(RamNew, dbg) THEN "debug_assert" ELSE "")
    /\ stage = "new"
    /\ last = [op |-> "new", instruction |-> 0 - 1, pre |-> Registers(Machine),
               ret |-> 0]
    /\ hist = [steps |-> 0, calls |-> 0, returns |-> 0, call_sites |-> <<>>,
               returned_from |-> 0, draws |-> <<>>, gets |-> <<>>,
               stored |-> <<>>, cleared_lit |-> FALSE, iterations |-> 0,
               presses |-> <<>>]

Init == \E dbg \in BOOLEAN : New(dbg)

\* prepare_emulator: Emulator::load_rom with the program's words
LoadRom(words) ==
    /\ stage = "new"
    /\ stage' = "loaded"
    /\ memory' = load_rom(memory, RomBytes(words))
    /\ panic' = IF load_rom_fails(RomBytes(words)) THEN "index_out_of_bounds"
                ELSE panic
    /\ last' = [op |-> "load_rom", instruction |-> 0 - 1,
                pre |-> Registers(Machine), ret |-> 0]
    /\ UNCHANGED <<v, i, pc, return_stack, last_instruction_time, delay,
                   delay_set_time, buffer, last_display_time, pressed_key_code,
                   pressed_key_time, now, debug_build, hist>>

\* Emulator::load_rom with any bytes, on a new emulator or after another load
LoadImage(data, max_loads) ==
    /\ panic = ""
    /\ hist.steps = 0
    /\ IF stage = "new" THEN max_loads > 0
       ELSE last.op = "load_image" /\ last.ret.loads < max_loads
    /\ stage' = "loaded"
    /\ memory' = load_rom(memory, data)
    /\ panic' = IF load_rom_fails(data) THEN "index_out_of_bounds" ELSE panic
    /\ last' = [op |-> "load_image", instruction |-> 0 - 1,
                pre |-> Registers(Machine),
                ret |-> [loads |-> IF stage = "new" THEN 1 ELSE last.ret.loads + 1,
                         data |-> data, before |-> memory]]
    /\ UNCHANGED <<v, i, pc, return_stack, last_instruction_time, delay,
                   delay_set_time, buffer, last_display_time, pressed_key_code,
                   pressed_key_time, now, debug_build, hist>>

---------------------------------------------------------------------------
(* Calls and returns *)

NumCallTargets == 2
CallRomLen == 3
MaxCallSteps == 6

\* the time between two steps of the engine
StepMs == INSTRUCTION_INTERVAL_MS + 1

\* the words of the call programs: return, jump to the start, and a call to
\* each of the instructions after the first
CallWords ==
    {Ret, Jp(RomAddress(0))} \cup {Call(RomAddress(k)) : k \in 1..NumCallTargets}

CallRoms == [1..CallRomLen -> CallWords]

LoadCall == \E words \in CallRoms : LoadRom(words)

StepCall == hist.steps < MaxCallSteps /\ GatedStep(StepMs)

NextCall == LoadCall \/ StepCall

SpecCall == Init /\ [][NextCall]_vars

\* the last operation was a step of the engine that completed
Stepped == Iterated /\ last.ret.runs /\ panic = ""

\* C1: the call stack holds, in order, the address + 2 of every call that has
\* not returned yet; its depth is the number of calls minus the number of
\* returns; and a return leaves pc at the address of the call it returns
\* from, plus 2.
C1_ReturnsMatchCalls ==
    /\ Len(return_stack) = hist.calls - hist.returns
    /\ Len(hist.call_sites) = Len(return_stack)
    /\ \A k \in 1..Len(return_stack) : return_stack[k] = hist.call_sites[k] + 2
    /\ (Stepped /\ IsReturn(last.instruction)) =>
          /\ last.pre.return_stack # <<>>
          /\ pc = hist.returned_from + 2
          /\ return_stack = SubSeq(last.pre.return_stack, 1,
                                   Len(last.pre.return_stack) - 1)

\* a return from the inner of two nested calls has just completed
C1_Witness ==
    /\ Stepped
    /\ IsReturn(last.instruction)
    /\ Len(last.pre.return_stack) = 2
    /\ pc = hist.returned_from + 2
    /\ hist.calls = 2
    /\ hist.returns = 1

---------------------------------------------------------------------------
(* Programs that reach for the ends of memory *)

NumMemAddrs == 3
NumMemVals == 2
MaxMemSteps == 5

\* addresses at and near the last byte of memory, and one in the middle
MemAddrSamples == <<4095, 4093, 4080, 768, 4094, 4000>>

MemAddrs == {MemAddrSamples[k] : k \in 1..NumMemAddrs}

\* register values
ByteSamples == <<255, 1, 128, 0, 127, 2, 254, 16, 100>>

MemVals == {ByteSamples[k] : k \in 1..NumMemVals}

\* the instruction that follows the set-up: a memory access through I, or a
\* jump
MemOps(addr) ==
    {Bcd(0), Store(0), Store(15), Load(0), Load(15), Drw(0, 0, 1), Drw(0, 0, 15),
     Jp(addr), JpV0(addr)}

\* V0 := val; I := addr; I += V0; then one of MemOps
MemRoms ==
    {<<Ld(0, val), LdI(addr), AddI(0), op>> :
        val \in {0} \cup MemVals, addr \in MemAddrs, op \in UNION {MemOps(a) : a \in MemAddrs}}

LoadMem == \E words \in MemRoms : LoadRom(words)

StepMem == hist.steps < MaxMemSteps /\ GatedStep(StepMs)

Next == LoadMem \/ StepMem

Spec == Init /\ [][Next]_vars

\* C2: no step of the engine reaches for a byte outside the 4096-byte memory
\* (the index check of Ram::read and Ram::write never fails).
C2_AccessesInBounds == panic # "index_out_of_bounds"

---------------------------------------------------------------------------
(* Register-register arithmetic: 8xy4, 8xy5, 8xy6, 8xy7, 8xyE *)

NumAluSels == 3
NumAluVals == 4
MaxAluSteps == 3

SelSamples == <<15, 0, 7, 1, 14, 8>>

AluSels == {SelSamples[k] : k \in 1..NumAluSels}

AluVals == {ByteSamples[k] : k \in 1..NumAluVals}

\* Vx := a; Vy := b; then 8xyn
AluRoms ==
    {<<Ld(x, a), Ld(y, b), Alu(x, y, n)>> :
        x \in AluSels, y \in AluSels, a \in AluVals, b \in AluVals,
        n \in {4, 5, 6, 7, 14}}

LoadAlu == \E words \in AluRoms : LoadRom(words)

StepAlu == hist.steps < MaxAluSteps /\ GatedStep(StepMs)

NextAlu == LoadAlu \/ StepAlu

SpecAlu == Init /\ [][NextAlu]_vars

\* the selectors of the last instruction, and the operands it found
LastX == (last.instruction \div 256) % 16
LastY == (last.instruction \div 16) % 16
LastA == last.pre.v[LastX]
LastB == last.pre.v[LastY]

\* the last operation was a completed 8xyn
AluStepped(n) ==
    Stepped /\ last.instruction \div 4096 = 8 /\ last.instruction % 16 = n

\* C3 as stated: after 8xy4, for every x and y, VF is 1 iff a + b > 255 and
\* Vx = (a + b) mod 256.
C3_Original ==
    AluStepped(4) =>
        /\ v[15] = (IF LastA + LastB > 255 THEN 1 ELSE 0)
        /\ v[LastX] = (LastA + LastB) % 256

\* C3 amended: after 8xy4, for every x and y, VF is 1 iff a + b > 255 and 0
\* otherwise; Vx = (a + b) mod 256 for every x other than 15, where the flag
\* is written over the sum.
C3_AddWithCarry ==
    AluStepped(4) =>
        /\ v[15] = (IF LastA + LastB > 255 THEN 1 ELSE 0)
        /\ LastX # 15 => v[LastX] = (LastA + LastB) % 256

\* an add that overflowed has completed
C3_Witness ==
    /\ AluStepped(4)
    /\ LastX # 15
    /\ LastX # LastY
    /\ LastA + LastB > 255
    /\ v[15] = 1
    /\ v[LastX] = LastA + LastB - 256

\* C4 as stated: after 8xy5, Vx = (Vx - Vy) mod 256 and VF = 1 iff Vx >= Vy;
\* after 8xy7, Vx = (Vy - Vx) mod 256 and VF = 1 iff Vy >= Vx; for every x, y.
C4_Original ==
    /\ AluStepped(5) =>
        /\ v[15] = (IF LastA >= LastB THEN 1 ELSE 0)
        /\ v[LastX] = (LastA - LastB + 256) % 256
    /\ AluStepped(7) =>
        /\ v[15] = (IF LastB >= LastA THEN 1 ELSE 0)
        /\ v[LastX] = (LastB - LastA + 256) % 256

\* C4 amended: the flag is as stated for every x and y; the difference is in
\* Vx for every x other than 15, where the flag is written over it.
C4_SubtractNoBorrow ==
    /\ AluStepped(5) =>
        /\ v[15] = (IF LastA >= LastB THEN 1 ELSE 0)
        /\ LastX # 15 => v[LastX] = (LastA - LastB + 256) % 256
    /\ AluStepped(7) =>
        /\ v[15] = (IF LastB >= LastA THEN 1 ELSE 0)
        /\ LastX # 15 => v[LastX] = (LastB - LastA + 256) % 256

\* a reversed subtraction that did not borrow has completed
C4_Witness ==
    /\ AluStepped(7)
    /\ LastX # 15
    /\ LastB > LastA
    /\ v[15] = 1
    /\ v[LastX] = LastB - LastA

\* C5 as stated: after 8xy6, VF = v mod 2 and Vx = v div 2; after 8xyE,
\* VF = v div 128 and Vx = (2 * v) mod 256; for every x.
C5_Original ==
    /\ AluStepped(6) =>
        /\ v[15] = LastA % 2
        /\ v[LastX] = LastA \div 2
    /\ AluStepped(14) =>
        /\ v[15] = LastA \div 128
        /\ v[LastX] = (2 * LastA) % 256

\* what the engine's shifts do: as stated for every x other than 15.  For
\* x = 15 the bit is sampled into VF and the shift is then applied to VF
\* itself: VF = 0 after 8Fy6, and VF = 2 * (v div 128) after 8FyE.
ShiftsAsBuilt ==
    /\ AluStepped(6) =>
        IF LastX = 15 THEN v[15] = 0
        ELSE v[15] = LastA % 2 /\ v[LastX] = LastA \div 2
    /\ AluStepped(14) =>
        IF LastX = 15 THEN v[15] = 2 * (LastA \div 128)
        ELSE v[15] = LastA \div 128 /\ v[LastX] = (2 * LastA) % 256

\* a shift left of VF that lost a set bit has completed
ShiftedFlagRegister ==
    /\ AluStepped(14)
    /\ LastX = 15
    /\ LastA >= 128
    /\ v[15] = 2

---------------------------------------------------------------------------
(* The screen alone: Screen::draw_byte *)

NumByteDraws == 4
MaxByteDraws == 3

\* calls of draw_byte: two bytes that overlap across the right edge, one past
\* both edges, one in the last column, one inside
ByteDrawSamples ==
    <<[byte |-> 240, x |-> 60, y |-> 31],
      [byte |-> 60, x |-> 60, y |-> 31],
      [byte |-> 255, x |-> 250, y |-> 255],
      [byte |-> 129, x |-> 63, y |-> 31],
      [byte |-> 24, x |-> 0, y |-> 5],
      [byte |-> 0, x |-> 7, y |-> 32]>>

ByteDraws == {ByteDrawSamples[k] : k \in 1..NumByteDraws}

\* one call of Screen::draw_byte on the emulator's screen
DrawByteCall(call) ==
    /\ stage = "new"
    /\ panic = ""
    /\ Len(hist.draws) < MaxByteDraws
    /\ LET d == draw_byte(buffer, call.byte, call.x, call.y)
       IN  /\ buffer' = d.buffer
           /\ last' = [op |-> "draw_byte", instruction |-> 0 - 1,
                       pre |-> Registers(Machine), ret |-> d.is_erased]
           /\ hist' = [hist EXCEPT !.draws =
                          Append(@, [call |-> call, before |-> buffer,
                                     after |-> d.buffer,
                                     is_erased |-> d.is_erased])]
    /\ UNCHANGED <<v, i, pc, return_stack, last_instruction_time, memory,
                   delay, delay_set_time, last_display_time, pressed_key_code,
                   pressed_key_time, now, debug_build, panic, stage>>

NextScreen == \E call \in ByteDraws : DrawByteCall(call)

SpecScreen == Init /\ [][NextScreen]_vars

Pixels == 0..(SCREEN_SIZE - 1)

\* the k-th and the next call of draw_byte had the same arguments
SameTwice(k) == hist.draws[k].call = hist.draws[k + 1].call

\* C6: drawing the same byte at the same coordinates twice in a row gives
\* back the framebuffer as it was before the first call, and the second call
\* reports an erased pixel exactly when the first call turned a pixel on.
C6_DrawTwiceRestores ==
    \A k \in 1..(Len(hist.draws) - 1) :
        SameTwice(k) =>
            /\ hist.draws[k + 1].after = hist.draws[k].before
            /\ hist.draws[k + 1].is_erased <=>
                  \E p \in Pixels : /\ hist.draws[k].before[p] = 0
                                    /\ hist.draws[k].after[p] = 1

\* the same byte was drawn twice on a framebuffer that was not blank; the
\* first call both set and erased pixels, the second reported the erasure
C6_Witness ==
    \E k \in 1..(Len(hist.draws) - 1) :
        /\ SameTwice(k)
        /\ hist.draws[k].before # ScreenNew
        /\ hist.draws[k].is_erased
        /\ hist.draws[k + 1].is_erased
        /\ buffer = hist.draws[k].before

---------------------------------------------------------------------------
(* Sprite draws: Dxyn *)

NumDrawSprites == 2
NumDrawPlaces == 3
NumDrawHeights == 3
MaxDrawSteps == 7

\* the program's own sprite, two rows, stored after its code
SpriteWord == 255 * 256 + 129

DrawDataAddress == RomAddress(8)

\* sprite addresses: the program's sprite, then the glyphs 1, 0 and 2
DrawSpriteSamples == <<DrawDataAddress, 5, 0, 10>>

DrawSprites == {DrawSpriteSamples[k] : k \in 1..NumDrawSprites}

\* coordinates: a sprite across the right and bottom edges, coordinates
\* past both edges, the top left corner, the last column
DrawPlaceSamples ==
    <<[x |-> 60, y |-> 31], [x |-> 250, y |-> 255], [x |-> 0, y |-> 0],
      [x |-> 63, y |-> 250], [x |-> 64, y |-> 32]>>

DrawPlaces == {DrawPlaceSamples[k] : k \in 1..NumDrawPlaces}

DrawHeightSamples == <<2, 1, 0, 15, 5>>

DrawHeights == {DrawHeightSamples[k] : k \in 1..NumDrawHeights}

\* two draws at the same coordinates, VF holding a stale value before the
\* second, then a jump to itself
DrawRoms ==
    {<<LdI(s1), Ld(0, at.x), Ld(1, at.y), Drw(0, 1, n1), LdI(s2), Ld(15, 255),
       Drw(0, 1, n2), Jp(RomAddress(7)), SpriteWord>> :
        s1 \in DrawSprites, s2 \in DrawSprites, at \in DrawPlaces,
        n1 \in DrawHeights, n2 \in DrawHeights}

LoadDraw == \E words \in DrawRoms : LoadRom(words)

StepDraw == hist.steps < MaxDrawSteps /\ GatedStep(StepMs)

NextDraw == LoadDraw \/ StepDraw

SpecDraw == Init /\ [][NextDraw]_vars

\* the engine is about to execute, and then completes or dies in, a Dxyn
DrawStep ==
    /\ stage = "loaded"
    /\ panic = ""
    /\ Fetched(Machine) \div 4096 = 13
    /\ hist'.steps = hist.steps + 1

NextX == (Fetched(Machine) \div 256) % 16
NextY == (Fetched(Machine) \div 16) % 16
NextN == Fetched(Machine) % 16

\* bit k (0 = most significant) of sprite row r
SpriteBit(r, k) == BitOf(memory[i + r], 7 - k)

\* the pixel of bit k of sprite row r
SpritePixel(r, k) ==
    ((v[NextY] + r) % SCREEN_HEIGHT) * SCREEN_WIDTH + ((v[NextX] + k) % SCREEN_WIDTH)

\* the sprite bit that lands on pixel p, 0 when none does: p is the pixel of
\* bit k of row r when r and k are its distances, around the edges, from
\* row Vy and column Vx
SpriteBitOn(p) ==
    LET r == ((p \div SCREEN_WIDTH) - v[NextY]) % SCREEN_HEIGHT
        k == ((p % SCREEN_WIDTH) - v[NextX]) % SCREEN_WIDTH
    IN  IF r < NextN /\ k < 8 /\ SpritePixel(r, k) = p THEN SpriteBit(r, k) ELSE 0

\* C7: a Dxyn with any Vx, Vy and n completes, and XORs bit k of row r into
\* the pixel at column (Vx + k) mod width, row (Vy + r) mod height, changing
\* no other pixel.
C7_SpriteWraps ==
    [][DrawStep =>
          /\ panic' = ""
          /\ buffer' = [p \in Pixels |-> (buffer[p] + SpriteBitOn(p)) % 2]]_vars

\* the same, for the draws that complete
DrawnAsStated ==
    [][(DrawStep /\ panic' = "") =>
          buffer' = [p \in Pixels |-> (buffer[p] + SpriteBitOn(p)) % 2]]_vars

\* a draw dies only in a build with overflow checks, when Vy + n - 1 > 255
DrawDiesOnlyOnOverflow ==
    [][(DrawStep /\ panic' # "") =>
          /\ debug_build
          /\ panic' = "add_overflow"
          /\ v[NextY] + NextN - 1 > 255]_vars

\* C8: after a Dxyn, VF is 1 if some row's XOR cleared a pixel that was set,
\* and 0 otherwise; whatever VF held before is gone.
C8_DrawSetsCollisionFlag ==
    [][(DrawStep /\ panic' = "") =>
          v'[15] = (IF \E r \in 0..(NextN - 1), k \in 0..7 :
                           SpriteBit(r, k) = 1 /\ buffer[SpritePixel(r, k)] = 1
                    THEN 1 ELSE 0)]_vars

\* a draw has completed and set VF, which held a stale value before it
C8_Witness ==
    /\ Stepped
    /\ last.instruction \div 4096 = 13
    /\ last.instruction % 16 = 2
    /\ last.pre.v[15] = 255
    /\ v[15] = 1

---------------------------------------------------------------------------
(* The timer alone: Timer::set_delay and Timer::get_delay *)

NumTimerValues == 2
NumTimerWaits == 4
MaxTimerCalls == 3

TimerValueSamples == <<5, 255, 0, 1, 16>>

TimerValues == {TimerValueSamples[k] : k \in 1..NumTimerValues}

\* the milliseconds that pass before a get_delay
TimerWaitSamples == <<0, 16, 80, 15, 4096, 1, 64>>

TimerWaits == {TimerWaitSamples[k] : k \in 1..NumTimerWaits}

TimerCalls == hist.steps

\* Timer::set_delay(value), StepMs after the call before it
TimerSet(value) ==
    /\ stage = "new"
    /\ panic = ""
    /\ TimerCalls < MaxTimerCalls
    /\ now' = now + StepMs
    /\ delay' = value
    /\ delay_set_time' = now'
    /\ last' = [op |-> "set_delay", instruction |-> 0 - 1,
                pre |-> Registers(Machine), ret |-> 0]
    /\ hist' = [hist EXCEPT !.steps = @ + 1, !.gets = <<>>]
    /\ UNCHANGED <<v, i, pc, return_stack, last_instruction_time, memory,
                   buffer, last_display_time, pressed_key_code,
                   pressed_key_time, debug_build, panic, stage>>

\* Timer::get_delay(), wait milliseconds after the call before it
TimerGet(wait) ==
    /\ stage = "new"
    /\ panic = ""
    /\ TimerCalls < MaxTimerCalls
    /\ now' = now + wait
    /\ LET ret == get_delay(delay, delay_set_time, now')
       IN  /\ panic' = IF ret = UNREACHABLE THEN "unreachable" ELSE ""
           /\ last' = [op |-> "get_delay", instruction |-> 0 - 1,
                       pre |-> Registers(Machine), ret |-> ret]
           /\ hist' = [hist EXCEPT !.steps = @ + 1,
                          !.gets = Append(@, [elapsed |-> now' - delay_set_time,
                                              ret |-> ret])]
    /\ UNCHANGED <<v, i, pc, return_stack, last_instruction_time, memory,
                   delay, delay_set_time, buffer, last_display_time,
                   pressed_key_code, pressed_key_time, debug_build, stage>>

NextTimer ==
    \/ \E value \in TimerValues : TimerSet(value)
    \/ \E wait \in TimerWaits : TimerGet(wait)

SpecTimer == Init /\ [][NextTimer]_vars

\* max(0, d - floor(elapsed / 16))
Remaining(d, elapsed) ==
    IF d - (elapsed \div 16) > 0 THEN d - (elapsed \div 16) ELSE 0

\* C9: every get_delay since the last set_delay(v) returned
\* max(0, v - floor(elapsed / 16)): at most v, at least 0, not the unreachable
\* arm, not more than an earlier one, and for v = 5 it returned 5 at 0 ms,
\* 4 at 16 ms and 0 from 80 ms on.
C9_DelayCountsDown ==
    /\ panic # "unreachable"
    /\ \A k \in 1..Len(hist.gets) :
          LET g == hist.gets[k]
          IN  /\ g.ret = Remaining(delay, g.elapsed)
              /\ g.ret <= delay
              /\ g.ret >= 0
              /\ g.ret # UNREACHABLE
              /\ \A j \in 1..(k - 1) : g.ret <= hist.gets[j].ret
              /\ delay = 5 =>
                    /\ g.elapsed = 0 => g.ret = 5
                    /\ g.elapsed = 16 => g.ret = 4
                    /\ g.elapsed >= 80 => g.ret = 0

\* after set_delay(5), a get_delay at 0 ms and one at 16 ms
C9_Witness ==
    /\ delay = 5
    /\ Len(hist.gets) = 2
    /\ hist.gets[1] = [elapsed |-> 0, ret |-> 5]
    /\ hist.gets[2] = [elapsed |-> 16, ret |-> 4]

\* after set_delay(5), a get_delay at 80 ms or later
TimerRunsOut ==
    /\ delay = 5
    /\ \E k \in 1..Len(hist.gets) : hist.gets[k].elapsed >= 80 /\ hist.gets[k].ret = 0

---------------------------------------------------------------------------
(* Block store and load: Fx55 and Fx65 *)

NumBlockSels == 2
NumBlockAddrs == 2
NumBlockVals == 2
MaxBlockSteps == 10

\* the last register of the block
BlockSelSamples == <<15, 1, 0, 14>>

BlockSels == {BlockSelSamples[k] : k \in 1..NumBlockSels}

\* a free address, the last one whose 16 cells fit, the glyphs, and one whose
\* sixteenth cell is past the end
BlockAddrSamples == <<768, 4080, 0, 4081>>

BlockAddrs == {BlockAddrSamples[k] : k \in 1..NumBlockAddrs}

BlockValSamples == <<7, 255, 0, 128>>

BlockVals == {BlockValSamples[k] : k \in 1..NumBlockVals}

\* V0, V1 and VF are set, the block is stored, V0, V1 and VF are changed, and
\* the block is loaded
BlockRoms ==
    {<<LdI(addr), Ld(0, a), Ld(1, 170), Ld(15, c), Store(x),
       Ld(0, a2), Ld(1, 85), Ld(15, 9), Load(x), Jp(RomAddress(9))>> :
        addr \in BlockAddrs, x \in BlockSels, a \in BlockVals, c \in BlockVals,
        a2 \in BlockVals}

LoadBlock == \E words \in BlockRoms : LoadRom(words)

StepBlock == hist.steps < MaxBlockSteps /\ GatedStep(StepMs)

NextBlock == LoadBlock \/ StepBlock

SpecBlock == Init /\ [][NextBlock]_vars

\* the engine is about to execute, and completes, the instruction at pc
Completes ==
    /\ stage = "loaded"
    /\ panic = ""
    /\ hist'.steps = hist.steps + 1
    /\ panic' = ""

\* the step is an Fx55 that wrote V0..Vx to the x + 1 cells from I on and
\* changed nothing else
StoredBlock ==
    /\ v' = v
    /\ i' = i
    /\ memory' = [a \in 0..(RAM_SIZE - 1) |->
                    IF a >= i /\ a <= i + NextX THEN v[a - i] ELSE memory[a]]

\* the step is an Fx65 with the I and x of the last block store
LoadsStoredBlock ==
    /\ Completes
    /\ IsLoad(Fetched(Machine))
    /\ hist.stored # <<>>
    /\ hist.stored[1].i = i
    /\ hist.stored[1].x = NextX

\* the step gave V0..Vx the values they had at the store
RestoredBlock ==
    /\ i' = i
    /\ \A k \in 0..NextX : v'[k] = hist.stored[1].v[k]
    /\ \A k \in (NextX + 1)..15 : v'[k] = v[k]

\* C10: Fx55 writes V0..Vx to the x + 1 cells from I on and changes no other
\* cell, no register and not I; an Fx65 that follows it with the same I and x
\* gives V0..Vx the values they had at the store, whatever they held in
\* between, and changes no register above x and not I.
C10_StoreLoadRoundTrip ==
    [][((Completes /\ IsStore(Fetched(Machine))) => StoredBlock)
       /\ (LoadsStoredBlock => RestoredBlock)]_vars

\* a block of all 16 registers was stored, V0 and VF were changed, and the
\* load has put the stored values back
C10_Witness ==
    /\ Stepped
    /\ IsLoad(last.instruction)
    /\ (last.instruction \div 256) % 16 = 15
    /\ hist.stored # <<>>
    /\ hist.stored[1].i = i
    /\ hist.stored[1].x = 15
    /\ last.pre.v[0] # hist.stored[1].v[0]
    /\ last.pre.v[15] # hist.stored[1].v[15]
    /\ v = hist.stored[1].v

---------------------------------------------------------------------------
(* Clear screen: 00E0 *)

NumClearSprites == 2
NumClearPlaces == 2
NumClearHeights == 2
MaxClearSteps == 15

ClearDataAddress == RomAddress(9)

\* sprite addresses: the program's sprite, then the glyphs 1, 0 and 2
ClearSpriteSamples == <<ClearDataAddress, 5, 0, 10>>

ClearSprites == {ClearSpriteSamples[k] : k \in 1..NumClearSprites}

ClearPlaces == {DrawPlaceSamples[k] : k \in 1..NumClearPlaces}

ClearHeights == {DrawHeightSamples[k] : k \in 1..NumClearHeights}

\* inside a call: two draws at the same place, a clear, and again
ClearRoms ==
    {<<Call(RomAddress(1)), LdI(s1), Ld(0, at.x), Ld(1, at.y), Drw(0, 1, n),
       LdI(s2), Drw(0, 1, n), Cls, Jp(RomAddress(1)), SpriteWord>> :
        s1 \in ClearSprites, s2 \in ClearSprites, at \in ClearPlaces,
        n \in ClearHeights}

LoadClear == \E words \in ClearRoms : LoadRom(words)

StepClear == hist.steps < MaxClearSteps /\ GatedStep(StepMs)

NextClear == LoadClear \/ StepClear

SpecClear == Init /\ [][NextClear]_vars

\* the engine is about to execute the instruction at pc
Steps ==
    /\ stage = "loaded"
    /\ panic = ""
    /\ hist'.steps = hist.steps + 1

\* C11: a 00E0 completes and leaves every framebuffer cell 0, pc advanced by
\* 2, and every register, I, every memory cell, the call stack and the timer
\* as they were.
C11_ClearBlanksScreenOnly ==
    [][(Steps /\ Fetched(Machine) = Cls) =>
          /\ panic' = ""
          /\ \A p \in Pixels : buffer'[p] = 0
          /\ pc' = pc + 2
          /\ v' = v
          /\ i' = i
          /\ memory' = memory
          /\ return_stack' = return_stack
          /\ delay' = delay
          /\ delay_set_time' = delay_set_time]_vars

\* a 00E0 has cleared a framebuffer with lit pixels, inside a call and with
\* VF set by a collision
C11_Witness ==
    /\ Stepped
    /\ last.instruction = Cls
    /\ hist.cleared_lit
    /\ buffer = ScreenNew
    /\ v[15] = 1
    /\ return_stack # <<>>

---------------------------------------------------------------------------
(* Immediate load and add: 6xnn, 7xnn *)

NumImmSels == 2
NumImmVals == 4
MaxImmSteps == 2

ImmSels == {SelSamples[k] : k \in 1..NumImmSels}

ImmValSamples == <<5, 255, 1, 128, 0>>

ImmVals == {ImmValSamples[k] : k \in 1..NumImmVals}

ImmRoms == {<<Ld(x, nn), AddImm(x, mm)>> : x \in ImmSels, nn \in ImmVals, mm \in ImmVals}

LoadImm == \E words \in ImmRoms : LoadRom(words)

StepImm == hist.steps < MaxImmSteps /\ GatedStep(StepMs)

NextImm == LoadImm \/ StepImm

SpecImm == Init /\ [][NextImm]_vars

\* the operands of the loaded program 6xnn 7xmm
ImmX == memory[RAM_ROM_START_ADDRESS] % 16
ImmNn == memory[RAM_ROM_START_ADDRESS + 1]
ImmMm == memory[RAM_ROM_START_ADDRESS + 3]

\* C12: from a fresh emulator with 6xnn 7xmm loaded, the first two steps
\* complete and leave Vx = (nn + mm) mod 256, pc = 0x204, and every other
\* register, VF among them, 0 as at the start.
C12_LoadThenAddImmediate ==
    (stage = "loaded" /\ hist.steps = 2) =>
        /\ panic = ""
        /\ v[ImmX] = (ImmNn + ImmMm) % 256
        /\ pc = RAM_ROM_START_ADDRESS + 4
        /\ \A k \in 0..15 : k # ImmX => v[k] = 0
        /\ i = 0
        /\ return_stack = <<>>

\* 6005 7005 has run: V0 = 10, pc = 0x204
C12_Witness ==
    /\ stage = "loaded"
    /\ hist.steps = 2
    /\ <<memory[512], memory[513], memory[514], memory[515]>> = <<96, 5, 112, 5>>
    /\ v[0] = 10
    /\ pc = 516

\* an add that wrapped: 6FFF 7F05 leaves VF = 4
ImmWrapped ==
    /\ stage = "loaded"
    /\ hist.steps = 2
    /\ ImmX = 15
    /\ ImmNn = 255
    /\ ImmMm = 5
    /\ v[15] = 4

---------------------------------------------------------------------------
(* Words that no arm of the match takes *)

NumDecodeWords == 12
MaxDecodeSteps == 3

\* 0000, F00A, 5001, 8008, 9001, E000, F000, 00E1, 800F, E09F, F0FF, 01E0,
\* F118, 5AB0, 8AB8, FF66
DecodeWordSamples ==
    <<0, 61450, 20481, 32776, 36865, 57344, 61440, 225, 32783, 57503, 61695,
      480, 61720, 23216, 35512, 65382>>

DecodeWords == {DecodeWordSamples[k] : k \in 1..NumDecodeWords}

\* the key that may be latched while the program runs
DecodeKey == 7

\* V0 := 9, the word, V0 := 1
DecodeRoms == {<<Ld(0, 9), w, Ld(0, 1)>> : w \in DecodeWords}

LoadDecode == \E words \in DecodeRoms : LoadRom(words)

StepDecode == hist.steps < MaxDecodeSteps /\ GatedStep(StepMs)

PressDecode == pressed_key_code = None /\ KeyIteration(DecodeKey)

NextDecode == LoadDecode \/ StepDecode \/ PressDecode

SpecDecode == Init /\ [][NextDecode]_vars

\* the bit patterns that section 4.2 of the specification enumerates
Enumerated(w) ==
    LET op == w \div 4096
        nn == w % 256
        n == w % 16
    IN  \/ op = 0 /\ nn \in {224, 238}
        \/ op \in {1, 2, 3, 4, 6, 7, 10, 11, 12, 13}
        \/ op \in {5, 9} /\ n = 0
        \/ op = 8 /\ n \in {0, 1, 2, 3, 4, 5, 6, 7, 14}
        \/ op = 14 /\ nn \in {158, 161}
        \/ op = 15 /\ nn \in {7, 21, 24, 30, 41, 51, 85, 101}

\* Fx0A, wait for a key
IsWaitKey(w) == w \div 4096 = 15 /\ w % 256 = 10

\* the step kills the engine and changes nothing of the machine
DiesUnchanged ==
    /\ panic' # ""
    /\ UNCHANGED <<v, i, pc, return_stack, memory, buffer, delay, delay_set_time>>

\* a dead engine executes nothing
DeadStaysDead ==
    panic # "" =>
        /\ hist'.steps = hist.steps
        /\ UNCHANGED <<v, i, pc, return_stack, memory, buffer, delay,
                       delay_set_time, panic>>

\* C13 as stated: a fetched word matching none of the patterns of section 4.2
\* kills the engine, changes nothing, and nothing executes after it.
C13_Original ==
    [][/\ (Steps /\ Fetched(Machine) >= 0 /\ ~Enumerated(Fetched(Machine)))
             => DiesUnchanged
       /\ DeadStaysDead]_vars

\* C13: a fetched word that matches none of the patterns of section 4.2 and
\* is not Fx0A kills the engine, changes nothing, and nothing executes after
\* it; Fx0A, which section 4.2 does not list, is executed.
C13_UnknownWordIsFatal ==
    [][/\ (/\ Steps
           /\ Fetched(Machine) >= 0
           /\ ~Enumerated(Fetched(Machine))
           /\ ~IsWaitKey(Fetched(Machine)))
             => DiesUnchanged
       /\ (Steps /\ IsWaitKey(Fetched(Machine))) => panic' = ""
       /\ DeadStaysDead]_vars

\* a word no arm takes was fetched after V0 := 9: the engine is dead with
\* V0 = 9 and pc at the word
C13_Witness ==
    /\ panic = "unreachable"
    /\ Iterated
    /\ last.ret.runs
    /\ last.instruction >= 0
    /\ ~Enumerated(last.instruction)
    /\ ~IsWaitKey(last.instruction)
    /\ hist.steps = 2
    /\ v[0] = 9
    /\ pc = RomAddress(1)

\* Fx0A was executed with a key latched: V0 holds the key, pc moved on
WaitKeyExecuted ==
    /\ Stepped
    /\ IsWaitKey(last.instruction)
    /\ v[0] = DecodeKey
    /\ pc = RomAddress(2)

---------------------------------------------------------------------------
(* Return with no call outstanding *)

\* C14: a 00EE executed with an empty call stack, which is when as many
\* returns as calls have completed, kills the engine without setting pc or
\* anything else, and nothing executes after it; a 00EE executed with a call
\* outstanding completes.
C14_ReturnUnderflowIsFatal ==
    [][/\ (Steps /\ Fetched(Machine) = Ret) =>
             /\ (return_stack = <<>>) <=> (hist.calls = hist.returns)
             /\ IF return_stack = <<>>
                THEN panic' = "unwrap_none" /\ DiesUnchanged
                ELSE panic' = ""
       /\ DeadStaysDead]_vars

\* a call returned, and the next 00EE found the stack empty: the engine is
\* dead at that 00EE
C14_Witness ==
    /\ panic = "unwrap_none"
    /\ Iterated
    /\ last.ret.runs
    /\ last.instruction = Ret
    /\ hist.calls = 1
    /\ hist.returns = 1
    /\ return_stack = <<>>
    /\ pc = last.pre.pc

---------------------------------------------------------------------------
(* The orchestrator loop: process_window *)

NumLoopKeys == 3
NumLoopTimings == 3
MaxLoopIterations == 3

\* what the window reports: no key, the key of code 7, a key with no code,
\* the key of code 1
LoopKeySamples ==
    <<[down |-> FALSE, code |-> None], [down |-> TRUE, code |-> Some(7)],
      [down |-> TRUE, code |-> None], [down |-> TRUE, code |-> Some(1)]>>

LoopKeys == {LoopKeySamples[k] : k \in 1..NumLoopKeys}

\* the milliseconds d before an iteration's first clock reading, and lag
\* between one clock reading of the iteration and the next
LoopTimingSamples ==
    <<[d |-> 200, lag |-> 0], [d |-> 0, lag |-> 0], [d |-> 3, lag |-> 1],
      [d |-> 199, lag |-> 0], [d |-> 11, lag |-> 0], [d |-> 2, lag |-> 0]>>

LoopTimings == {LoopTimingSamples[k] : k \in 1..NumLoopTimings}

\* wait for a key into V0, skip if the key in V0 is pressed, and jump to the
\* start either way
LoopRom == <<61450, 57502, Jp(RomAddress(0)), Jp(RomAddress(0))>>

LoadLoop == LoadRom(LoopRom)

Iterate ==
    /\ hist.iterations < MaxLoopIterations
    /\ \E key \in LoopKeys, timing \in LoopTimings :
          \E rnd \in RandomBytes(Machine) : process_window(key, timing, rnd)

NextLoop == LoadLoop \/ Iterate

SpecLoop == Init /\ [][NextLoop]_vars

\* C15: an iteration clears the latch only when a code is latched, no valid
\* key is down and at least 200 ms have passed since the last press; a press
\* sets the code and the time of the press together; so the last pressed
\* code is latched for the 200 ms after its press, and the assertion of
\* reset_pressed_key does not fail.
C15_LatchHeldForHoldTime ==
    /\ panic # "assert_reset"
    /\ Iterated =>
          /\ last.ret.resets =>
                /\ last.ret.latched # None
                /\ ~(last.ret.key.down /\ last.ret.key.code # None)
                /\ last.ret.t_reset_gate - pressed_key_time >= KEY_HOLD_MS
                /\ pressed_key_code = None
          /\ (last.ret.key.down /\ last.ret.key.code # None) =>
                /\ pressed_key_code = last.ret.key.code
                /\ hist.presses = <<[code |-> last.ret.key.code,
                                     time |-> pressed_key_time]>>
    /\ \A k \in 1..Len(hist.presses) :
          /\ pressed_key_time = hist.presses[k].time
          /\ now - hist.presses[k].time < KEY_HOLD_MS =>
                is_key_pressed(pressed_key_code, hist.presses[k].code[1])

\* a key was pressed, and an iteration 200 ms later with no key down has
\* cleared the latch
C15_Witness ==
    /\ Iterated
    /\ last.ret.resets
    /\ hist.presses # <<>>
    /\ pressed_key_code = None
    /\ last.ret.t_reset_gate - pressed_key_time = KEY_HOLD_MS

\* C16: an instruction step is taken exactly when its gate is open, more than
\* 2 ms after the step before it; a display flush exactly when its gate is
\* open, more than 10 ms after the flush before it or after construction; an
\* iteration with a gate closed completes without that action; and the gate
\* assertions of run_instruction and display do not fail.
C16_GatesSeparateSteps ==
    /\ panic \notin {"debug_assert", "assert_display"}
    /\ Iterated =>
          /\ last.ret.runs <=>
                last.ret.t_run_gate - last.ret.instruction_time > INSTRUCTION_INTERVAL_MS
          /\ last.ret.runs =>
                last_instruction_time - last.ret.instruction_time >= INSTRUCTION_INTERVAL_MS
          /\ ~last.ret.runs =>
                /\ last_instruction_time = last.ret.instruction_time
                /\ pc = last.pre.pc
                /\ panic = ""
          /\ (last.ret.displays /\ panic = "") =>
                last_display_time - last.ret.display_time >= DISPLAY_INTERVAL_MS
          /\ panic = "" =>
                (last.ret.displays <=>
                    last.ret.t_display_gate - last.ret.display_time > DISPLAY_INTERVAL_MS)
          /\ ~last.ret.displays => last_display_time = last.ret.display_time

\* an iteration with both gates closed after one with both open
C16_Witness ==
    /\ Iterated
    /\ hist.iterations = 2
    /\ hist.steps = 1
    /\ ~last.ret.runs
    /\ ~last.ret.displays
    /\ last_instruction_time > 0
    /\ last_display_time > 0
    /\ panic = ""

---------------------------------------------------------------------------
(* The cells of the framebuffer *)

\* C17: in every state of the programs that draw and clear, every cell of
\* the framebuffer is 0 or 1, and the match of display on a pixel does not
\* reach its unreachable arm.
C17_CellsAreBits ==
    /\ \A p \in Pixels : buffer[p] \in {0, 1}
    /\ ~display_unreachable(buffer)

\* a draw after a clear has collided with an earlier draw and left lit pixels
C17_Witness ==
    /\ Stepped
    /\ last.instruction \div 4096 = 13
    /\ hist.cleared_lit
    /\ v[15] = 1
    /\ \E p \in Pixels : buffer[p] = 1

---------------------------------------------------------------------------
(* Loading a program image: Emulator::load_rom *)

NumRomLengths == 3
NumRomSeeds == 3
MaxRomLoads == 2

\* lengths: two bytes, one byte more than fits from 0x200 on, all that fits,
\* nothing, the size of the memory
RomLengthSamples == <<2, 3585, 3584, 0, 4096>>

RomLengths == {RomLengthSamples[k] : k \in 1..NumRomLengths}

RomSeedSamples == <<1, 200, 77, 0>>

RomSeeds == {RomSeedSamples[k] : k \in 1..NumRomSeeds}

\* an image of len bytes, none of them 0 in the first bytes
RomImage(len, seed) == [k \in 1..len |-> (seed + 7 * k) % 256]

RomImages == {RomImage(len, seed) : len \in RomLengths, seed \in RomSeeds}

LoadRomImage == \E data \in RomImages : LoadImage(data, MaxRomLoads)

NextRom == LoadRomImage

SpecRom == Init /\ [][NextRom]_vars

\* the memory is the one before the load with data copied from 0x200 on
Copied(before, data) ==
    \A a \in 0..(RAM_SIZE - 1) :
        memory[a] = IF a >= RAM_ROM_START_ADDRESS /\ a < RAM_ROM_START_ADDRESS + Len(data)
                    THEN data[a - RAM_ROM_START_ADDRESS + 1]
                    ELSE before[a]

\* C18: a load of any byte sequence completes, with bytes[k] at 0x200 + k for
\* every k below its length, whatever was there before, and every other
\* address unchanged.
C18_LoadCopiesEveryByte ==
    last.op = "load_image" =>
        /\ panic = ""
        /\ Copied(last.ret.before, last.ret.data)

\* what load_rom does: the copy as stated when the image is at most
\* 4096 - 0x200 bytes long, and otherwise a failed write at address 0x1000
LoadsWhatFits ==
    last.op = "load_image" =>
        IF Len(last.ret.data) <= RAM_SIZE - RAM_ROM_START_ADDRESS
        THEN panic = "" /\ Copied(last.ret.before, last.ret.data)
        ELSE panic = "index_out_of_bounds"

\* a second image has been loaded over a longer first one
LoadedOver ==
    /\ last.op = "load_image"
    /\ last.ret.loads = 2
    /\ panic = ""
    /\ Len(last.ret.data) = 2
    /\ last.ret.before[RAM_SIZE - 1] # 0
    /\ memory[RAM_SIZE - 1] = last.ret.before[RAM_SIZE - 1]
    /\ memory[RAM_ROM_START_ADDRESS] # last.ret.before[RAM_ROM_START_ADDRESS]

---------------------------------------------------------------------------
(* One instruction of every kind *)

NumStepWords == 45
NumStepKeys == 2
MaxStepSteps == 5

\* the instruction under test, at RomAddress(3) with V0 = 3, V1 = 0, I = 768
\* and one call outstanding
StepWordSamples ==
    <<Cls, Ret, Jp(RomAddress(3)), Jp(RomAddress(5)), Call(RomAddress(3)),
      Call(RomAddress(4)), Se(0, 3), Se(0, 4), Sne(0, 3), Sne(0, 4), SeV(0, 1),
      SeV(0, 0), SneV(0, 1), SneV(0, 0), Ld(2, 9), AddImm(0, 255), Alu(0, 1, 0),
      Alu(0, 1, 1), Alu(0, 1, 2), Alu(0, 1, 3), Alu(0, 1, 4), Alu(0, 1, 5),
      Alu(0, 1, 6), Alu(0, 1, 7), Alu(0, 1, 14), LdI(5), JpV0(RomAddress(4) - 3),
      JpV0(RomAddress(3) - 3), 49665, Drw(0, 1, 2), Skp(0), Sknp(0), 61447,
      61962, 61461, 61464, AddI(0), 61481, Bcd(0), Store(1), Load(1),
      Skp(1), Sknp(1), Se(1, 0), Sne(1, 0), AddImm(2, 1)>>

StepWords == {StepWordSamples[k] : k \in 1..NumStepWords}

\* the keys that may be pressed while the program runs
StepKeySamples == <<3, 7, 0>>

StepKeys == {StepKeySamples[k] : k \in 1..NumStepKeys}

StepRoms ==
    {<<Call(RomAddress(1)), Ld(0, 3), LdI(768), w, Jp(RomAddress(4)),
       Jp(RomAddress(5))>> : w \in StepWords}

LoadStep == \E words \in StepRoms : LoadRom(words)

StepStep == hist.steps < MaxStepSteps /\ GatedStep(StepMs)

PressStep == pressed_key_code = None /\ \E code \in StepKeys : KeyIteration(code)

NextStep == LoadStep \/ StepStep \/ PressStep

SpecStep == Init /\ [][NextStep]_vars

\* 3xnn, 4xnn, 5xy0, 9xy0, Ex9E, ExA1
IsSkip(w) ==
    \/ w \div 4096 \in {3, 4}
    \/ w \div 4096 \in {5, 9} /\ w % 16 = 0
    \/ w \div 4096 = 14 /\ w % 256 \in {158, 161}

\* 00EE, 1nnn, 2nnn, Bnnn
IsTransfer(w) == IsReturn(w) \/ w \div 4096 \in {1, 2, 11}

\* C19 as stated: a completed instruction other than a return, jump, call,
\* offset jump or skip advances pc by 2, a skip by 2 or 4, and every
\* completed instruction changes pc.
C19_Original ==
    [][Completes =>
          /\ (~IsTransfer(Fetched(Machine)) /\ ~IsSkip(Fetched(Machine))) => pc' = pc + 2
          /\ IsSkip(Fetched(Machine)) => pc' \in {pc + 2, pc + 4}
          /\ pc' # pc]_vars

\* C19: a completed instruction other than a return, jump, call, offset jump,
\* skip or Fx0A advances pc by 2; a skip by 2 or 4; Fx0A by 2 with a key
\* latched and not at all without; one call of run_instruction executes one
\* instruction; and pc changes unless the instruction is an Fx0A without a
\* key or a return, jump, call or offset jump to its own address.
C19_PcAdvancesByTwo ==
    [][Completes =>
          /\ (/\ ~IsTransfer(Fetched(Machine))
              /\ ~IsSkip(Fetched(Machine))
              /\ ~IsWaitKey(Fetched(Machine))) => pc' = pc + 2
          /\ IsSkip(Fetched(Machine)) => pc' \in {pc + 2, pc + 4}
          /\ IsWaitKey(Fetched(Machine)) =>
                pc' = (IF pressed_key_code = None THEN pc ELSE pc + 2)
          /\ hist'.steps = hist.steps + 1
          /\ last'.instruction = Fetched(Machine)
          /\ (pc' = pc) =>
                \/ IsWaitKey(Fetched(Machine)) /\ pressed_key_code = None
                \/ IsTransfer(Fetched(Machine))]_vars

\* an Fx0A has completed with no key latched and left pc where it was
C19_Witness ==
    /\ Stepped
    /\ IsWaitKey(last.instruction)
    /\ pressed_key_code = None
    /\ pc = last.pre.pc
    /\ v = last.pre.v

\* an instruction that is neither a transfer nor a skip has advanced pc by 2
SteppedByTwo ==
    /\ Stepped
    /\ last.instruction = Bcd(0)
    /\ pc = last.pre.pc + 2

\* the word of the complementary skip: 3xnn and 4xnn, 5xy0 and 9xy0, Ex9E
\* and ExA1
Complement(w) ==
    CASE w \div 4096 = 3 -> w + 4096
      [] w \div 4096 = 4 -> w - 4096
      [] w \div 4096 = 5 -> w + 16384
      [] w \div 4096 = 9 -> w - 16384
      [] w % 256 = 158 -> w + 3
      [] OTHER -> w - 3

\* the condition of the skip w, as the claim states it
SkipCondition(w) ==
    LET vx == v[(w \div 256) % 16]
        vy == v[(w \div 16) % 16]
        op == w \div 4096
    IN  CASE op = 3 -> vx = w % 256
          [] op = 4 -> vx # w % 256
          [] op = 5 -> vx = vy
          [] op = 9 -> vx # vy
          [] w % 256 = 158 -> pressed_key_code # None /\ pressed_key_code[1] = vx
          [] OTHER -> ~(pressed_key_code # None /\ pressed_key_code[1] = vx)

\* C20: a skip completes, advances pc by 4 when its condition holds and by 2
\* when it does not, and changes nothing else; of a skip and its complement
\* exactly one has its condition hold, and the engine skips for exactly one.
C20_SkipsOnCondition ==
    [][(Steps /\ Fetched(Machine) >= 0 /\ IsSkip(Fetched(Machine))) =>
          /\ panic' = ""
          /\ pc' = (IF SkipCondition(Fetched(Machine)) THEN pc + 4 ELSE pc + 2)
          /\ UNCHANGED <<v, i, return_stack, memory, buffer, delay,
                         delay_set_time, pressed_key_code, pressed_key_time>>
          /\ SkipCondition(Complement(Fetched(Machine)))
                # SkipCondition(Fetched(Machine))
          /\ Dispatch(Machine, Complement(Fetched(Machine)), pressed_key_code,
                      now, 0, debug_build).pc
                = (IF pc' = pc + 4 THEN pc + 2 ELSE pc + 4)]_vars

\* Ex9E has skipped with the key of V0 latched
C20_Witness ==
    /\ Stepped
    /\ last.instruction = Skp(0)
    /\ pressed_key_code = Some(3)
    /\ v[0] = 3
    /\ pc = last.pre.pc + 4

\* ExA1 has skipped with the latch empty
SkippedOnEmptyLatch ==
    /\ Stepped
    /\ last.instruction = Sknp(0)
    /\ pressed_key_code = None
    /\ pc = last.pre.pc + 4

---------------------------------------------------------------------------
(* The order of the gated actions within one iteration *)

\* the step is one iteration of the loop
Iterates == stage = "loaded" /\ panic = "" /\ hist'.iterations = hist.iterations + 1

\* the iteration takes an instruction step, and the step completes
IteratesStep == Iterates /\ last'.ret.runs /\ panic' = ""

\* the latch left by the press and the clear of the iteration
LatchAfterClear == IF last'.ret.resets THEN None ELSE last'.ret.latched

\* C21 as stated: the step comes before the clear, so an Fx0A stepped in an
\* iteration that starts with a key latched reads a key and moves on.
C21_Original ==
    [][(IteratesStep /\ pressed_key_code # None /\ IsWaitKey(Fetched(Machine)))
          => pc' = pc + 2]_vars

\* C21: in one iteration the conditional clear of the latch comes first, then
\* the conditional instruction step, then the conditional flush: the clock
\* readings of the three gates are in that order, the step reads the latch
\* the clear has left (Fx0A waits and Ex9E does not skip after a clear in the
\* same iteration), and a flush in the iteration is stamped no earlier than
\* its step; a key latched at the start is visible to the step exactly when
\* the iteration does not clear it.
C21_ClearThenStepThenFlush ==
    [][Iterates =>
          /\ last'.ret.t_reset_gate <= last'.ret.t_run_gate
          /\ last'.ret.t_run_gate <= last'.ret.t_display_gate
          /\ last'.ret.resets => last'.ret.latched = pressed_key_code
          /\ panic' = "" => pressed_key_code' = LatchAfterClear
          /\ (IteratesStep /\ IsWaitKey(Fetched(Machine))) =>
                /\ pc' = (IF LatchAfterClear = None THEN pc ELSE pc + 2)
                /\ LatchAfterClear # None => v'[0] = LatchAfterClear[1]
          /\ (IteratesStep /\ Fetched(Machine) = Skp(0)) =>
                pc' = (IF LatchAfterClear = Some(v[0]) THEN pc + 4 ELSE pc + 2)
          /\ (IteratesStep /\ last'.ret.displays) =>
                /\ last_instruction_time' >= last'.ret.t_run_gate
                /\ last_display_time' >= last_instruction_time'
                /\ last_display_time' >= last'.ret.t_display_gate]_vars

\* an iteration that started with key 7 latched has cleared the latch and
\* then stepped an Fx0A, which found no key and stayed where it was
C21_Witness ==
    /\ Iterated
    /\ last.ret.latched = Some(7)
    /\ last.ret.resets
    /\ last.ret.runs
    /\ IsWaitKey(last.instruction)
    /\ pc = last.pre.pc
    /\ pressed_key_code = None
    /\ panic = ""

\* an iteration with time passing between its clock readings has stepped
\* and flushed
SteppedThenFlushed ==
    /\ Iterated
    /\ last.ret.runs
    /\ last.ret.displays
    /\ last.ret.t_reset_gate < last.ret.t_run_gate
    /\ last.ret.t_run_gate < last.ret.t_display_gate
    /\ panic = ""

---------------------------------------------------------------------------
(* Waiting for a key under the loop *)

\* C22: an Fx0A stepped with the latch empty changes nothing of the machine,
\* so the next step fetches it again; stepped with code c latched it sets Vx
\* to c and advances pc by 2 and changes nothing else; so the program moves
\* past Fx0A exactly in a step taken while a key is latched, and a step taken
\* less than 200 ms after the last press finds that key and consumes it.
C22_WaitKeyBlocks ==
    [][(IteratesStep /\ IsWaitKey(Fetched(Machine))) =>
          /\ pressed_key_code' = None =>
                /\ UNCHANGED <<pc, v, i, return_stack, memory, buffer, delay,
                               delay_set_time>>
                /\ Fetched(Machine)' = Fetched(Machine)
          /\ pressed_key_code' # None =>
                /\ v' = [v EXCEPT ![(Fetched(Machine) \div 256) % 16] =
                                        pressed_key_code'[1]]
                /\ pc' = pc + 2
                /\ UNCHANGED <<i, return_stack, memory, buffer, delay,
                               delay_set_time>>
          /\ (pc' # pc) <=> (pressed_key_code' # None)
          /\ \A k \in 1..Len(hist'.presses) :
                last'.ret.t_run_gate - hist'.presses[k].time < KEY_HOLD_MS =>
                    /\ pressed_key_code' = hist'.presses[k].code
                    /\ v'[(Fetched(Machine) \div 256) % 16] = hist'.presses[k].code[1]
                    /\ pc' = pc + 2]_vars

\* key 7, pressed in an earlier iteration that took no step, has been
\* consumed by an Fx0A stepped later within the hold, with no key down
C22_Witness ==
    /\ Iterated
    /\ last.ret.runs
    /\ ~last.ret.key.down
    /\ IsWaitKey(last.instruction)
    /\ hist.steps = 1
    /\ hist.iterations >= 2
    /\ pressed_key_code = Some(7)
    /\ last.ret.t_run_gate > pressed_key_time
    /\ v[0] = 7
    /\ pc = last.pre.pc + 2
    /\ panic = ""

\* Fx0A has been stepped twice with the latch empty and is still to be
\* executed
WaitedTwice ==
    /\ Iterated
    /\ last.ret.runs
    /\ IsWaitKey(last.instruction)
    /\ hist.steps = 2
    /\ pressed_key_code = None
    /\ pc = RomAddress(0)
    /\ v[0] = 0
    /\ panic = ""

===========================================================================
